---------------------------- MODULE Spec2Model ----------------------------
(***************************************************************************)
(* Model of scripts/lib/env.py: json2env, the recursive flattener that     *)
(* turns a JSON object into KEY=VALUE lines, and the module-level list     *)
(* _env it accumulates them in.                                            *)
(*                                                                         *)
(* Text (Python str) is a sequence of one-character strings.  A JSON       *)
(* value is a record [t, n, s, elems, items] with one shape for every      *)
(* kind, so that values of different kinds can be compared:                *)
(*   t = "int"  : n is the number                                          *)
(*   t = "str"  : s is the text                                            *)
(*   t = "bool" : n is 1 (True) or 0 (False)                               *)
(*   t = "null" : None                                                     *)
(*   t = "list" : elems is the sequence of element values                  *)
(*   t = "map"  : items is the sequence of <<key, value>> in insertion     *)
(*                order (a Python dict), keys pairwise distinct            *)
(* Floats and strings that need JSON escapes are outside the model.        *)
(***************************************************************************)
EXTENDS Integers, Sequences, FiniteSets, TLC

----------------------------------------------------------------------------
(* Values *)

MkInt(n) == [t |-> "int", n |-> n, s |-> <<>>, elems |-> <<>>, items |-> <<>>]
MkStr(s) == [t |-> "str", n |-> 0, s |-> s, elems |-> <<>>, items |-> <<>>]
MkBool(b) == [t |-> "bool", n |-> IF b THEN 1 ELSE 0, s |-> <<>>, elems |-> <<>>, items |-> <<>>]
MkNull == [t |-> "null", n |-> 0, s |-> <<>>, elems |-> <<>>, items |-> <<>>]
MkList(es) == [t |-> "list", n |-> 0, s |-> <<>>, elems |-> es, items |-> <<>>]
MkMap(its) == [t |-> "map", n |-> 0, s |-> <<>>, elems |-> <<>>, items |-> its]

\* IsDict without the type test: every value is taken for a dict
IsDictAny(v) == TRUE

\* isinstance(v, dict)
IsDict(v) == v.t = "map"

----------------------------------------------------------------------------
(* Text helpers *)

DigitChars == <<"0", "1", "2", "3", "4", "5", "6", "7", "8", "9">>
LowerChars == <<"a", "b", "c", "d", "e", "f", "g", "h", "i", "j", "k", "l", "m",
                "n", "o", "p", "q", "r", "s", "t", "u", "v", "w", "x", "y", "z">>
UpperChars == <<"A", "B", "C", "D", "E", "F", "G", "H", "I", "J", "K", "L", "M",
                "N", "O", "P", "Q", "R", "S", "T", "U", "V", "W", "X", "Y", "Z">>

IndexIn(c, tbl) == IF \E i \in DOMAIN tbl : tbl[i] = c
                   THEN CHOOSE i \in DOMAIN tbl : tbl[i] = c
                   ELSE 0

\* one character of str.upper()
UpperChar(c) == IF IndexIn(c, LowerChars) > 0 THEN UpperChars[IndexIn(c, LowerChars)] ELSE c

\* str.upper()
Upper(s) == [i \in DOMAIN s |-> UpperChar(s[i])]

\* sep.join(parts)
RECURSIVE Join(_, _)
Join(parts, sep) ==
    IF Len(parts) = 0 THEN <<>>
    ELSE IF Len(parts) = 1 THEN parts[1]
    ELSE parts[1] \o sep \o Join(Tail(parts), sep)

\* decimal digits of a natural number
RECURSIVE NatDigits(_)
NatDigits(n) == IF n < 10 THEN <<DigitChars[n + 1]>>
                ELSE NatDigits(n \div 10) \o <<DigitChars[(n % 10) + 1]>>

\* str(n) and JSON's rendering of an int
IntDigits(n) == IF n < 0 THEN <<"-">> \o NatDigits(-n) ELSE NatDigits(n)

----------------------------------------------------------------------------
(* str(v) and repr(v), as the f-string of line 49 renders a value *)

RECURSIVE PyRepr(_)
PyRepr(v) ==
    CASE v.t = "int" -> IntDigits(v.n)
      [] v.t = "str" -> <<"'">> \o v.s \o <<"'">>
      [] v.t = "bool" -> IF v.n = 1 THEN <<"T", "r", "u", "e">> ELSE <<"F", "a", "l", "s", "e">>
      [] v.t = "null" -> <<"N", "o", "n", "e">>
      [] v.t = "list" ->
            <<"[">> \o Join([i \in DOMAIN v.elems |-> PyRepr(v.elems[i])], <<",", " ">>) \o <<"]">>
      [] v.t = "map" ->
            <<"{">> \o Join([i \in DOMAIN v.items |->
                               <<"'">> \o v.items[i][1] \o <<"'", ":", " ">> \o PyRepr(v.items[i][2])],
                            <<",", " ">>) \o <<"}">>

PyStr(v) == IF v.t = "str" THEN v.s ELSE PyRepr(v)

----------------------------------------------------------------------------
(* json.dumps(v): default separators ", " and ": " *)

RECURSIVE JsonDumps(_)
JsonDumps(v) ==
    CASE v.t = "int" -> IntDigits(v.n)
      [] v.t = "str" -> <<"\"">> \o v.s \o <<"\"">>
      [] v.t = "bool" -> IF v.n = 1 THEN <<"t", "r", "u", "e">> ELSE <<"f", "a", "l", "s", "e">>
      [] v.t = "null" -> <<"n", "u", "l", "l">>
      [] v.t = "list" ->
            <<"[">> \o Join([i \in DOMAIN v.elems |-> JsonDumps(v.elems[i])], <<",", " ">>) \o <<"]">>
      [] v.t = "map" ->
            <<"{">> \o Join([i \in DOMAIN v.items |->
                               <<"\"">> \o v.items[i][1] \o <<"\"", ":", " ">> \o JsonDumps(v.items[i][2])],
                            <<",", " ">>) \o <<"}">>

----------------------------------------------------------------------------
(* json.loads(text): a recursive-descent parser.  Every parse result is    *)
(* [ok, val, next]: next is the position after the value.                  *)

JsonWs == {" ", "\t", "\n", "\r"}

ParseFail == [ok |-> FALSE, val |-> MkNull, next |-> 0]
ParseOk(v, nxt) == [ok |-> TRUE, val |-> v, next |-> nxt]

At(s, i) == IF i >= 1 /\ i <= Len(s) THEN s[i] ELSE ""

RECURSIVE SkipWs(_, _)
SkipWs(s, i) == IF At(s, i) \in JsonWs THEN SkipWs(s, i + 1) ELSE i

\* position of the closing quote at or after i, 0 when there is none
RECURSIVE ScanQuote(_, _)
ScanQuote(s, i) == IF i > Len(s) THEN 0
                   ELSE IF s[i] = "\"" THEN i
                   ELSE ScanQuote(s, i + 1)

\* s[i] is the opening quote
ParseString(s, i) ==
    LET q == ScanQuote(s, i + 1)
    IN  IF At(s, i) # "\"" \/ q = 0 THEN ParseFail
        ELSE ParseOk(MkStr(SubSeq(s, i + 1, q - 1)), q + 1)

RECURSIVE ScanDigits(_, _)
ScanDigits(s, i) == IF IndexIn(At(s, i), DigitChars) > 0 THEN ScanDigits(s, i + 1) ELSE i

RECURSIVE DigitsValue(_)
DigitsValue(ds) == IF Len(ds) = 0 THEN 0
                   ELSE 10 * DigitsValue(SubSeq(ds, 1, Len(ds) - 1))
                        + (IndexIn(ds[Len(ds)], DigitChars) - 1)

\* -?(0|[1-9][0-9]*), integers only
ParseNumber(s, i) ==
    LET neg == At(s, i) = "-"
        b == IF neg THEN i + 1 ELSE i
        e == ScanDigits(s, b)
    IN  IF e = b THEN ParseFail
        ELSE IF At(s, b) = "0" /\ e > b + 1 THEN ParseFail
        ELSE ParseOk(MkInt((IF neg THEN -1 ELSE 1) * DigitsValue(SubSeq(s, b, e - 1))), e)

StartsWith(s, i, lit) == i + Len(lit) - 1 <= Len(s) /\ SubSeq(s, i, i + Len(lit) - 1) = lit

\* d[k] = v on a Python dict: a repeated key keeps its first position
DictSet(its, k, v) ==
    IF \E i \in DOMAIN its : its[i][1] = k
    THEN [i \in DOMAIN its |-> IF its[i][1] = k THEN <<k, v>> ELSE its[i]]
    ELSE Append(its, <<k, v>>)

RECURSIVE ParseValue(_, _)
RECURSIVE ParseMembers(_, _, _)
RECURSIVE ParseElements(_, _, _)

\* i is at a key's opening quote; acc holds the members parsed so far
ParseMembers(s, i, acc) ==
    LET k == ParseString(s, i)
        c == SkipWs(s, k.next)
        v == ParseValue(s, SkipWs(s, c + 1))
        e == SkipWs(s, v.next)
        acc2 == DictSet(acc, k.val.s, v.val)
    IN  IF ~k.ok THEN ParseFail
        ELSE IF At(s, c) # ":" THEN ParseFail
        ELSE IF ~v.ok THEN ParseFail
        ELSE IF At(s, e) = "}" THEN ParseOk(MkMap(acc2), e + 1)
        ELSE IF At(s, e) = "," THEN ParseMembers(s, SkipWs(s, e + 1), acc2)
        ELSE ParseFail

\* i is at an element's first character
ParseElements(s, i, acc) ==
    LET v == ParseValue(s, i)
        e == SkipWs(s, v.next)
    IN  IF ~v.ok THEN ParseFail
        ELSE IF At(s, e) = "]" THEN ParseOk(MkList(Append(acc, v.val)), e + 1)
        ELSE IF At(s, e) = "," THEN ParseElements(s, SkipWs(s, e + 1), Append(acc, v.val))
        ELSE ParseFail

ParseValue(s, i) ==
    LET c == At(s, i)
    IN  CASE c = "{" ->
               IF At(s, SkipWs(s, i + 1)) = "}" THEN ParseOk(MkMap(<<>>), SkipWs(s, i + 1) + 1)
               ELSE ParseMembers(s, SkipWs(s, i + 1), <<>>)
          [] c = "[" ->
               IF At(s, SkipWs(s, i + 1)) = "]" THEN ParseOk(MkList(<<>>), SkipWs(s, i + 1) + 1)
               ELSE ParseElements(s, SkipWs(s, i + 1), <<>>)
          [] c = "\"" -> ParseString(s, i)
          [] c = "-" \/ IndexIn(c, DigitChars) > 0 -> ParseNumber(s, i)
          [] StartsWith(s, i, <<"t", "r", "u", "e">>) -> ParseOk(MkBool(TRUE), i + 4)
          [] StartsWith(s, i, <<"f", "a", "l", "s", "e">>) -> ParseOk(MkBool(FALSE), i + 5)
          [] StartsWith(s, i, <<"n", "u", "l", "l">>) -> ParseOk(MkNull, i + 4)
          [] OTHER -> ParseFail

\* json.loads(text): [ok, val]; ok = FALSE is json.JSONDecodeError
JsonLoads(s) ==
    LET r == ParseValue(s, SkipWs(s, 1))
    IN  IF r.ok /\ SkipWs(s, r.next) = Len(s) + 1
        THEN [ok |-> TRUE, val |-> r.val]
        ELSE [ok |-> FALSE, val |-> MkNull]

----------------------------------------------------------------------------
(* Inputs *)

\* text of a one-character key or string
Ch(c) == <<c>>

DocEmpty == MkMap(<<>>)
DocFlat == MkMap(<< <<<<"l", "K">>, MkStr(Ch("v"))>> >>)
DocPrims == MkMap(<< <<Ch("x"), MkInt(10)>>, <<Ch("y"), MkBool(TRUE)>>, <<Ch("z"), MkNull>> >>)
DocNested == MkMap(<< <<Ch("a"), MkMap(<< <<Ch("b"), MkInt(1)>>, <<Ch("c"), MkInt(2)>> >>)>> >>)
DocTriple == MkMap(<< <<Ch("a"), MkMap(<< <<Ch("b"), MkMap(<< <<Ch("c"), MkInt(3)>> >>)>> >>)>> >>)
DocMixed == MkMap(<< <<Ch("p"), MkList(<<MkInt(1), MkStr(Ch("s"))>>)>>,
                     <<Ch("q"), MkMap(<< <<Ch("r"), MkInt(-7)>> >>)>>,
                     <<Ch("t"), MkStr(Ch("u"))>> >>)
DocHollow == MkMap(<< <<Ch("m"), MkMap(<<>>)>>, <<Ch("n"), MkBool(FALSE)>> >>)
DocDeep == MkMap(<< <<Ch("k"), MkInt(0)>>,
                    <<Ch("d"), MkMap(<< <<Ch("e"), MkMap(<< <<Ch("f"),
                         MkMap(<< <<Ch("g"), MkInt(4)>> >>)>> >>)>> >>)>> >>)

\* documents whose root is a mapping
MapDocs == {DocEmpty, DocFlat, DocPrims, DocNested, DocTriple, DocMixed, DocHollow, DocDeep}

\* well-formed documents whose root is not a mapping
NonMapDocs == {MkList(<<MkInt(1), MkInt(2)>>), MkStr(Ch("s")), MkInt(7), MkBool(TRUE), MkNull}

Docs == MapDocs \cup NonMapDocs

\* texts that are not JSON
MalformedTexts == {<<>>, <<"{">>, <<"{", "\"", "a", "\"", ":", "1", ",", "}">>}

InputTexts == {JsonDumps(d) : d \in Docs} \cup MalformedTexts

\* the mappings found among a value's mapping values, at any depth
RECURSIVE SubMaps(_)
SubMaps(v) ==
    IF v.t # "map" THEN {}
    ELSE UNION {{v.items[i][2]} \cup SubMaps(v.items[i][2]) :
                   i \in {j \in DOMAIN v.items : v.items[j][2].t = "map"}}

\* every text json.loads can be handed: the callers' and those of line 42
KnownTexts == InputTexts \cup {JsonDumps(v) : v \in UNION {SubMaps(d) : d \in MapDocs}}

\* json.loads tabulated once over those texts
LoadsTable == [s \in KnownTexts |-> JsonLoads(s)]

\* line 21: json.loads(jsonstr)
Loads(s) == IF s \in KnownTexts THEN LoadsTable[s] ELSE JsonLoads(s)

Threads == {"t1", "t2"}
MainThread == "t1"

\* top-level calls made in one process lifetime
MaxCalls == 2

\* the interpreter's limit on nested activations (sys.getrecursionlimit()), scaled down
RecursionLimit == 3

----------------------------------------------------------------------------
(* State *)

VARIABLES
    _env,       \* the module-level list (line 3): a sequence of texts
    stack,      \* per thread, its json2env activations, outermost first
    threads,    \* the threads of the process
    cur,        \* per thread, the record of its top-level call in progress: its text,
                \* _env when it began, whether another thread's call ran meanwhile,
                \* and where each join of line 65 happened
    history     \* the completed top-level calls, in order of completion

vars == <<_env, stack, threads, cur, history>>

\* one activation of json2env
Frame(jsonstr, key, nested) ==
    [pc |-> "load", jsonstr |-> jsonstr, val |-> <<>>, pos |-> 0,
     incr |-> 0, _key |-> key, _nested |-> nested]

NoCall == [jsonstr |-> <<>>, envBefore |-> <<>>, overlapped |-> FALSE, flushes |-> <<>>]

Busy(t) == stack[t] # <<>>
Top(t) == stack[t][Len(stack[t])]
SetTop(t, f) == [stack EXCEPT ![t] = [@ EXCEPT ![Len(@)] = f]]

Started == Len(history) + Cardinality({t \in threads : Busy(t)})

InitWith(ths) ==
    /\ _env = <<>>
    /\ threads = ths
    /\ stack = [t \in Threads |-> <<>>]
    /\ cur = [t \in Threads |-> NoCall]
    /\ history = <<>>

Init == InitWith({MainThread})

----------------------------------------------------------------------------
(* Leaving an activation *)

\* the record of a completed top-level call
Done(t, c, outcome, exc, text) ==
    [thread |-> t, jsonstr |-> c.jsonstr, envBefore |-> c.envBefore,
     overlapped |-> c.overlapped, flushes |-> c.flushes, envAfter |-> _env,
     outcome |-> outcome, exc |-> exc, text |-> text]

Pop(stk) == SubSeq(stk, 1, Len(stk) - 1)

\* An exception: no activation catches it, so it unwinds the thread's whole stack
\* and reaches the caller of the top-level call.
Raise(t, exc) ==
    /\ history' = Append(history, Done(t, cur[t], "raise", exc, <<>>))
    /\ stack' = [stack EXCEPT ![t] = <<>>]
    /\ cur' = [cur EXCEPT ![t] = NoCall]

\* The top activation returns.  outcome is "text" (line 65) or "None" (falling off
\* the end of the function).  A nested activation's value is dropped by its caller
\* (line 42 is an expression statement); the outermost one's reaches the caller.
Return(t, outcome, text) ==
    LET f == Top(t)
        here == [depth |-> Len(stack[t]), nested |-> f._nested, taken |-> f.pos, size |-> Len(f.val)]
        c == [cur[t] EXCEPT !.flushes = IF outcome = "text" THEN Append(@, here) ELSE @]
    IN  IF Len(stack[t]) = 1
        THEN /\ history' = Append(history, Done(t, c, outcome, "", text))
             /\ stack' = [stack EXCEPT ![t] = <<>>]
             /\ cur' = [cur EXCEPT ![t] = NoCall]
        ELSE /\ stack' = [stack EXCEPT ![t] = Pop(@)]
             /\ cur' = [cur EXCEPT ![t] = c]
             /\ UNCHANGED history

----------------------------------------------------------------------------
(* json2env, lines 12-65 *)

\* line 41: the prefix handed to the recursive call
ChildKey(f, k) == f._key \o k \o <<"_">>

\* line 49: the entry of a value that is not a dict
EntryText(f, k, v) == f._key \o k \o <<"=">> \o PyStr(v)

\* EnvAppend putting the new entry first
EnvPrepend(env, e) == <<e>> \o env

\* line 55: _env.append(env)
EnvAppend(env, e) == Append(env, e)

\* ItemsOf that iterates nothing for a value that is not a dict
ItemsOfLenient(v) == [ok |-> TRUE, items |-> v.items]

\* line 23: val.items(); ok = FALSE is the AttributeError of a value that has none
ItemsOf(v) == IF IsDict(v) THEN [ok |-> TRUE, items |-> v.items]
              ELSE [ok |-> FALSE, items |-> <<>>]

\* nesting depth of a value: containers inside containers
RECURSIVE ValueDepth(_)
ValueDepth(v) ==
    LET RECURSIVE MaxOf(_)
        MaxOf(ds) == IF Len(ds) = 0 THEN 0
                     ELSE IF ds[1] > MaxOf(Tail(ds)) THEN ds[1] ELSE MaxOf(Tail(ds))
    IN  CASE v.t = "list" -> 1 + MaxOf([i \in DOMAIN v.elems |-> ValueDepth(v.elems[i])])
          [] v.t = "map" -> 1 + MaxOf([i \in DOMAIN v.items |-> ValueDepth(v.items[i][2])])
          [] OTHER -> 0

\* FlushCond without the _nested test
FlushCondAnyDepth(f) == f.incr = Len(f.val)

\* line 57
FlushCond(f) == f._nested = FALSE /\ f.incr = Len(f.val)

\* line 65
JoinEnv(env) == Join(env, <<"\n">>)

\* A caller invokes json2env(jsonstr) with the default _key and _nested (line 12).
\* The module-level _env is whatever earlier calls left in it.
Call(t) ==
    /\ ~Busy(t)
    /\ Started < MaxCalls
    /\ \E jsonstr \in InputTexts :
         /\ stack' = [stack EXCEPT ![t] = <<Frame(jsonstr, <<>>, FALSE)>>]
         /\ cur' = [u \in Threads |->
                      IF u = t
                      THEN [jsonstr |-> jsonstr, envBefore |-> _env,
                            overlapped |-> \E w \in threads \ {t} : Busy(w),
                            flushes |-> <<>>]
                      ELSE IF Busy(u) THEN [cur[u] EXCEPT !.overlapped = TRUE]
                      ELSE cur[u]]
    /\ UNCHANGED <<_env, threads, history>>

\* lines 16-23: incr = 0, val = json.loads(jsonstr), then val.items().
\* A document nested deeper than the interpreter's recursion limit: on builds whose
\* JSON parser counts against that limit, json.loads of the top-level text raises
\* RecursionError; on builds that limit interpreted frames only, it parses and the
\* limit is met at the recursive call of line 42.  Either can be the build at hand.
Load(t) ==
    /\ Busy(t)
    /\ Top(t).pc = "load"
    /\ LET r == Loads(Top(t).jsonstr)
           it == ItemsOf(r.val)
       IN  \/ /\ Len(stack[t]) = 1
              /\ r.ok
              /\ ValueDepth(r.val) > RecursionLimit
              /\ Raise(t, "RecursionError")
           \/ IF ~r.ok THEN Raise(t, "JSONDecodeError")
              ELSE IF ~it.ok THEN Raise(t, "AttributeError")
              ELSE /\ stack' = SetTop(t, [Top(t) EXCEPT !.pc = "for", !.val = it.items, !.incr = 0])
                   /\ UNCHANGED <<cur, history>>
    /\ UNCHANGED <<_env, threads>>

\* lines 23-55: one pass of the loop body up to the check of line 57
Iterate(t) ==
    /\ Busy(t)
    /\ Top(t).pc = "for"
    /\ Top(t).pos < Len(Top(t).val)
    /\ LET f == Top(t)
           k == Upper(f.val[f.pos + 1][1])
           v == f.val[f.pos + 1][2]
           g == [f EXCEPT !.pos = @ + 1, !.incr = @ + 1, !.pc = "check"]
       IN  IF IsDict(v)
           THEN /\ IF Len(stack[t]) >= RecursionLimit
                   THEN Raise(t, "RecursionError")
                   ELSE /\ stack' = [stack EXCEPT ![t] =
                                       Append([@ EXCEPT ![Len(@)] = g],
                                              Frame(JsonDumps(v), ChildKey(f, k), TRUE))]
                        /\ UNCHANGED <<cur, history>>
                /\ UNCHANGED _env
           ELSE /\ _env' = EnvAppend(_env, EntryText(f, k, v))
                /\ stack' = SetTop(t, g)
                /\ UNCHANGED <<cur, history>>
    /\ UNCHANGED threads

\* lines 57-65: the completion check at the end of the loop body
Check(t) ==
    /\ Busy(t)
    /\ Top(t).pc = "check"
    /\ IF FlushCond(Top(t))
       THEN Return(t, "text", JoinEnv(_env))
       ELSE /\ stack' = SetTop(t, [Top(t) EXCEPT !.pc = "for"])
            /\ UNCHANGED <<cur, history>>
    /\ UNCHANGED <<_env, threads>>

\* line 23, the loop is exhausted: the function ends without a return statement
Exhaust(t) ==
    /\ Busy(t)
    /\ Top(t).pc = "for"
    /\ Top(t).pos = Len(Top(t).val)
    /\ Return(t, "None", <<>>)
    /\ UNCHANGED <<_env, threads>>

Run(t) == Load(t) \/ Iterate(t) \/ Check(t) \/ Exhaust(t)

Next ==
    \/ \E t \in threads : Call(t)
    \/ \E t \in threads : Load(t)
    \/ \E t \in threads : Iterate(t)
    \/ \E t \in threads : Check(t)
    \/ \E t \in threads : Exhaust(t)

\* one thread: every call ends before the next begins
Spec == Init /\ [][Next]_vars

\* one thread, and an activation that can take a step eventually takes it
FairSpec == Init /\ [][Next]_vars /\ \A t \in Threads : WF_vars(Run(t))

\* two threads calling into the module, their steps interleaved
ThreadedSpec == InitWith(Threads) /\ [][Next]_vars

----------------------------------------------------------------------------
(* What the properties are stated with *)

Range(q) == {q[i] : i \in DOMAIN q}

IsPrefix(a, b) == Len(a) <= Len(b) /\ SubSeq(b, 1, Len(a)) = a

\* the text is the JSON of one of the documents
WellFormed(text) == \E d \in Docs : JsonDumps(d) = text
DocOf(text) == CHOOSE d \in Docs : JsonDumps(d) = text
MapRooted(text) == WellFormed(text) /\ DocOf(text).t = "map"

\* One entry per value that is not a mapping, depth first in insertion order:
\* the upper-cased keys of the path joined by "_", then "=", then the value's text.
RECURSIVE Flatten(_, _)
Flatten(its, path) ==
    IF Len(its) = 0 THEN <<>>
    ELSE LET k == Upper(its[1][1])
             v == its[1][2]
         IN  (IF v.t = "map" THEN Flatten(v.items, path \o k \o <<"_">>)
              ELSE <<path \o k \o <<"=">> \o PyStr(v)>>)
             \o Flatten(Tail(its), path)

Expected(text) == Flatten(DocOf(text).items, <<>>)
ExpectedText(text) == Join(Expected(text), <<"\n">>)

\* nesting depth of mappings: 1 for a mapping with no mapping among its values
RECURSIVE MapDepth(_)
MapDepth(v) ==
    IF v.t # "map" THEN 0
    ELSE 1 + (LET ds == {MapDepth(v.items[i][2]) : i \in DOMAIN v.items} \cup {0}
              IN  CHOOSE m \in ds : \A x \in ds : x <= m)

\* a non-empty mapping nested no deeper than the interpreter allows
Plain(text) ==
    /\ MapRooted(text)
    /\ Len(DocOf(text).items) > 0
    /\ ValueDepth(DocOf(text)) <= RecursionLimit

\* a non-empty mapping with no mapping among its values
Flat(text) ==
    /\ MapRooted(text)
    /\ Len(DocOf(text).items) > 0
    /\ \A i \in DOMAIN DocOf(text).items : DocOf(text).items[i][2].t # "map"

\* the lines of a text; the empty text has none
RECURSIVE SplitLines(_)
SplitLines(text) ==
    IF Len(text) = 0 THEN <<>>
    ELSE IF \E i \in DOMAIN text : text[i] = "\n"
    THEN LET i == CHOOSE j \in DOMAIN text :
                    text[j] = "\n" /\ \A m \in 1..(j - 1) : text[m] # "\n"
         IN  <<SubSeq(text, 1, i - 1)>> \o SplitLines(SubSeq(text, i + 1, Len(text)))
    ELSE <<text>>

----------------------------------------------------------------------------
(* Properties *)

\* C1: of two top-level calls made one after the other on unrelated documents
\* (no entry in common), the text the second returns holds no entry of the first
\* call's document.
C1_NoCarryOver ==
    \A i \in DOMAIN history :
        i > 1 =>
            LET a == history[i - 1]
                b == history[i]
            IN  ( /\ MapRooted(a.jsonstr)
                  /\ MapRooted(b.jsonstr)
                  /\ Range(Expected(a.jsonstr)) \cap Range(Expected(b.jsonstr)) = {}
                  /\ b.outcome = "text" )
                => Range(SplitLines(b.text)) \cap Range(Expected(a.jsonstr)) = {}

\* C2: a top-level call on a document whose root is a (non-empty, admissibly
\* nested) mapping returns exactly the lines of its depth-first flattening:
\* KEYPATH=text for each value that is not a mapping, and nothing else.
C2_ExactLines ==
    \A i \in DOMAIN history :
        Plain(history[i].jsonstr) =>
            /\ history[i].outcome = "text"
            /\ history[i].text = ExpectedText(history[i].jsonstr)

\* C3: a top-level call on a flat mapping of N >= 1 entries returns exactly N
\* lines, the i-th being UPPER(key_i)=text(value_i).
C3_FlatLines ==
    \A i \in DOMAIN history :
        Flat(history[i].jsonstr) =>
            LET its == DocOf(history[i].jsonstr).items
            IN  /\ history[i].outcome = "text"
                /\ Len(SplitLines(history[i].text)) = Len(its)
                /\ SplitLines(history[i].text) =
                       [j \in DOMAIN its |-> Upper(its[j][1]) \o <<"=">> \o PyStr(its[j][2])]

\* C4: a top-level call on the empty mapping returns the empty text.
C4_EmptyRoot ==
    \A i \in DOMAIN history :
        history[i].jsonstr = JsonDumps(DocEmpty) =>
            /\ history[i].outcome = "text"
            /\ history[i].text = <<>>

\* C5: a top-level call whose text parses to a value that is not a mapping ends
\* in an exception; it never returns.
C5_NonMappingRootFails ==
    \A i \in DOMAIN history :
        (WellFormed(history[i].jsonstr) /\ DocOf(history[i].jsonstr).t # "map")
            => history[i].outcome = "raise"

C5_Witness ==
    \E i \in DOMAIN history :
        /\ WellFormed(history[i].jsonstr)
        /\ DocOf(history[i].jsonstr).t = "list"
        /\ history[i].outcome = "raise"
        /\ history[i].exc = "AttributeError"

\* C6: a top-level call that ran while another thread's call was in progress
\* returns exactly the lines of its own document.
C6_ThreadSafe ==
    \A i \in DOMAIN history :
        (history[i].overlapped /\ Plain(history[i].jsonstr)) =>
            /\ history[i].outcome = "text"
            /\ history[i].text = ExpectedText(history[i].jsonstr)

\* C7: a top-level call that ends in an exception produces no output and leaves
\* _env as it was when the call began.
C7_FailedCallLeavesNoTrace ==
    \A i \in DOMAIN history :
        history[i].outcome = "raise" =>
            /\ history[i].text = <<>>
            /\ history[i].envAfter = history[i].envBefore

\* C8: within one top-level call, _env is joined and returned at most once, and
\* only by the outermost activation once every entry of the root mapping has been
\* taken (the work beneath them done): no activation has joined while the call is
\* still running, so a nested activation never joins or returns text, also when
\* its counter equals the size of its mapping.  A call on a non-empty mapping that
\* returns has joined exactly once.
C8_FlushOnceByOutermost ==
    /\ \A t \in Threads : Busy(t) => cur[t].flushes = <<>>
    /\ \A i \in DOMAIN history :
          LET h == history[i]
          IN  /\ Len(h.flushes) <= 1
              /\ (h.outcome = "text") <=> (Len(h.flushes) = 1)
              /\ \A j \in DOMAIN h.flushes :
                    /\ h.flushes[j].depth = 1
                    /\ h.flushes[j].nested = FALSE
                    /\ h.flushes[j].taken = h.flushes[j].size
                    /\ h.flushes[j].size = Len(DocOf(h.jsonstr).items)
              /\ ( /\ MapRooted(h.jsonstr)
                   /\ Len(DocOf(h.jsonstr).items) > 0
                   /\ h.outcome # "raise" )
                 => (h.outcome = "text" /\ Len(h.flushes) = 1)

C8_Witness ==
    /\ \E i \in DOMAIN history :
          /\ history[i].jsonstr = JsonDumps(DocNested)
          /\ history[i].outcome = "text"
          /\ Len(history[i].flushes) = 1
    /\ Busy(MainThread)
    /\ Len(stack[MainThread]) > 1
    /\ Top(MainThread).pc = "check"
    /\ Top(MainThread).incr = Len(Top(MainThread).val)

\* C9: a top-level call on a mapping never has more activations on the stack
\* than the document's nesting depth of mappings; it always ends; and on a
\* document nested no deeper than the interpreter allows it ends by returning.
C9_DepthOk ==
    /\ \A t \in Threads :
          (Busy(t) /\ MapRooted(cur[t].jsonstr))
              => Len(stack[t]) <= MapDepth(DocOf(cur[t].jsonstr))
    /\ \A i \in DOMAIN history :
          ( /\ MapRooted(history[i].jsonstr)
            /\ ValueDepth(DocOf(history[i].jsonstr)) <= RecursionLimit )
          => history[i].outcome # "raise"

C10_EnvIsConcatenation ==
    LET settled == IF Len(history) = 0 THEN <<>> ELSE history[Len(history)].envAfter
        Added(before, after) == SubSeq(after, Len(before) + 1, Len(after))
        Partial(text, added) == IF MapRooted(text) THEN IsPrefix(added, Expected(text))
                                ELSE added = <<>>
    IN  /\ \A i \in DOMAIN history :
              LET h == history[i]
              IN  /\ h.envBefore = (IF i = 1 THEN <<>> ELSE history[i - 1].envAfter)
                  /\ IsPrefix(h.envBefore, h.envAfter)
                  /\ IF h.outcome = "raise"
                     THEN Partial(h.jsonstr, Added(h.envBefore, h.envAfter))
                     ELSE Added(h.envBefore, h.envAfter) = Expected(h.jsonstr)
                  /\ h.outcome = "text" => h.text = Join(h.envAfter, <<"\n">>)
        /\ IF Busy(MainThread)
           THEN /\ cur[MainThread].envBefore = settled
                /\ IsPrefix(settled, _env)
                /\ Partial(cur[MainThread].jsonstr, Added(settled, _env))
           ELSE _env = settled

C10_Witness ==
    \E i \in DOMAIN history :
        /\ i > 1
        /\ history[i].outcome = "text"
        /\ Len(history[i].envBefore) > 0
        /\ Len(history[i].envAfter) > Len(history[i].envBefore)
        /\ history[i - 1].outcome = "raise"
        /\ Len(history[i - 1].envAfter) > Len(history[i - 1].envBefore)

=============================================================================
